---- MODULE Spec2Model ----
(***************************************************************************)
(* Job Search Dashboard backend (src/main.py): the jobs table, the partial *)
(* update, the single delete, the CSV import and the scrape-and-reconcile  *)
(* handler.  Every handler opens its own SQLite connection, so the table   *)
(* is shared state and the reconcile handler, which uses three successive  *)
(* connections, is interleaved with the other handlers.                    *)
(*                                                                         *)
(* Columns kept: id, job_url, title, date_posted, salary_source, checked,  *)
(* status, notes, applied_at.  site, company, location, job_type,          *)
(* salary_min, salary_max, is_remote and created_at are written once at    *)
(* insert exactly like title and are represented by it.  Every provider    *)
(* and CSV row carries a job_url (rows with a missing URL are outside the  *)
(* model).                                                                 *)
(*                                                                         *)
(* SQLite semantics used: a connection's first INSERT opens a write        *)
(* transaction that lasts until commit; meanwhile other connections read   *)
(* the committed table and their writes wait (a waiting handler is a       *)
(* disabled action).  Closing a connection without commit rolls back.      *)
(***************************************************************************)
EXTENDS Integers, Sequences, FiniteSets, TLC

\* ---------------------------------------------------------------- bounds
MaxId    == 2     \* ids handed out by the table stay within 1..MaxId
MaxDay   == 2     \* calendar days the clock runs through
MaxBatch == 2     \* rows in one provider result
MaxCsv   == 1     \* rows in the CSV file

\* ------------------------------------------------------------- constants
DefaultResultsWanted == 100
NullDate == 0
Absent == -1

NULL == "NULL"
None == "None"
Procs == {"r1", "r2"}

\* Titles and, for each, the exclusion keywords it contains as a substring
\* (str.contains, case-insensitive).
TitleHits(t) ==
  CASE t = "Engineer"        -> {}
    [] t = "Senior Engineer" -> {"senior"}
    [] t = "QA Intern"       -> {"intern"}

DefaultKeywords ==
  {"senior", "sr.", "sr", "lead", "principal", "staff", "manager",
   "architect", "head", "director"}

\* request.exclude_keywords: None, or a comma separated list
Keywords(exclude_keywords) ==
  IF exclude_keywords = None THEN DefaultKeywords ELSE {exclude_keywords}

ExcludeChoices == {None, "intern"}
WantedChoices == {1, DefaultResultsWanted}

\* Rows the provider may return: job_url, title, date_posted (NullDate when
\* the date is missing or unparseable), salary_source.
ProviderRows ==
  { [job_url |-> "u1", title |-> "Engineer",        date_posted |-> 2, salary_source |-> "direct"],
    [job_url |-> "u2", title |-> "Senior Engineer", date_posted |-> 2, salary_source |-> "direct"],
    [job_url |-> "u2", title |-> "QA Intern",       date_posted |-> NullDate, salary_source |-> "direct"] }

\* Rows of recent_non_senior_jobs.csv (no salary_source column is imported)
CsvRows ==
  { [job_url |-> "u1", title |-> "QA Intern", date_posted |-> 1, salary_source |-> NULL],
    [job_url |-> "u2", title |-> "Engineer",  date_posted |-> 2, salary_source |-> NULL] }

SeqsUpTo(S, n) == UNION { [1..k -> S] : k \in 0..n }

Batches  == SeqsUpTo(ProviderRows, MaxBatch)
CsvFiles == SeqsUpTo(CsvRows, MaxCsv)

StatusChoices  == {None, "new", "applied", "rejected"}

Min(a, b) == IF a < b THEN a ELSE b

VARIABLES
  available,   \* JOBSPY_AVAILABLE
  jobs,        \* committed rows of table jobs
  seq,         \* committed sqlite_sequence value of table jobs
  usedIds,     \* history: ids of all rows ever committed
  today,       \* datetime.now() as a day number
  run,         \* per reconcile request: position and locals of scrape_new_jobs
  txnOwner,    \* request whose insert transaction holds the write lock
  txnJobs,     \* table as seen inside that transaction
  txnSeq,      \* sqlite_sequence inside that transaction
  last         \* response of the latest update / delete / import call

vars == <<available, jobs, seq, usedIds, today, run, txnOwner, txnJobs, txnSeq, last>>

NoTxn == "none"

IdleRun ==
  [ pc |-> "idle", no_rows |-> FALSE, filtered_df |-> <<>>, scraped |-> <<>>,
    preserved_urls |-> {}, deleted |-> 0, added |-> 0, skipped |-> 0,
    i |-> 1, code |-> 0, kind |-> "none", total_found |-> 0 ]

NoResponse == [op |-> "none", code |-> 0, added |-> 0]

Init ==
  /\ available \in BOOLEAN
  /\ jobs = {}
  /\ seq = 0
  /\ usedIds = {}
  /\ today = 1
  /\ run = [p \in Procs |-> IdleRun]
  /\ txnOwner = NoTxn
  /\ txnJobs = {}
  /\ txnSeq = 0
  /\ last = NoResponse


\* ------------------------------------------------------------ table jobs

\* A freshly inserted row: the column defaults of CREATE TABLE jobs.
NewJob(id, row) ==
  [ id |-> id, job_url |-> row.job_url, title |-> row.title,
    date_posted |-> row.date_posted, salary_source |-> row.salary_source,
    checked |-> 0, status |-> "new", notes |-> "", applied_at |-> NullDate ]

Ids(table) == { r.id : r \in table }
Urls(table) == { r.job_url : r \in table }

\* Variant: a plain INTEGER PRIMARY KEY, one more than the largest id now in
\* the table.
NextRowIdPlain(table, seqv) ==
  IF table = {} THEN 1
  ELSE (CHOOSE m \in Ids(table) : \A x \in Ids(table) : x <= m) + 1

\* id INTEGER PRIMARY KEY AUTOINCREMENT: one more than the largest id the
\* table ever held (sqlite_sequence).
NextRowId(table, seqv) == seqv + 1

\* job_url TEXT UNIQUE
UniqueConflict(table, url) == \E r \in table : r.job_url = url

\* Variant: INSERT OR REPLACE, the row holding the job_url gives way.
InsertOrReplace(table, seqv, row) ==
  LET id == NextRowId(table, seqv) IN
  [jobs |-> { r \in table : r.job_url # row.job_url } \cup {NewJob(id, row)},
   seq |-> id, rowcount |-> 1]

\* INSERT OR IGNORE INTO jobs (...): a row whose job_url is taken is dropped
\* silently, no exception is raised and the statement's rowcount is 0; the
\* sequence advances for an ignored insert too.
InsertOrIgnore(table, seqv, row) ==
  LET id == NextRowId(table, seqv) IN
  IF UniqueConflict(table, row.job_url)
    THEN [jobs |-> table, seq |-> id, rowcount |-> 0]
    ELSE [jobs |-> table \cup {NewJob(id, row)}, seq |-> id, rowcount |-> 1]

\* Variant: the delete keeps what the snapshot listed.
DeleteUnlisted(table, preserved) == { r \in table : r.job_url \in preserved }

\* Variant: the delete is never committed.
DeleteRolledBack(table, preserved) == table

\* DELETE FROM jobs WHERE status = 'new'
DeleteNew(table, preserved) == { r \in table : r.status # "new" }

\* SELECT job_url FROM jobs WHERE status != 'new'
PreservedUrls(table) == { r.job_url : r \in { x \in table : x.status # "new" } }

NewUrls(table) == { r.job_url : r \in { x \in table : x.status = "new" } }
CountNew(table) == Cardinality({ r \in table : r.status = "new" })

\* ------------------------------------------------------------ update_job

\* applied_at follows status whenever status is provided
AppliedAtFor(status, now) ==
  IF status = "applied" THEN now ELSE NullDate

\* Variant: applied_at is written only on the way into 'applied'.
UpdateSetsNoClear(checked, status, notes, now) ==
  (IF checked # None
     THEN [checked |-> IF checked = "true" THEN 1 ELSE 0] ELSE <<>>)
  @@ (IF status # None THEN [status |-> status] ELSE <<>>)
  @@ (IF status = "applied" THEN [applied_at |-> now] ELSE <<>>)
  @@ (IF notes # None THEN [notes |-> notes] ELSE <<>>)

\* The SET list built from the provided fields
UpdateSets(checked, status, notes, now) ==
  (IF checked # None
     THEN [checked |-> IF checked = "true" THEN 1 ELSE 0] ELSE <<>>)
  @@ (IF status # None
     THEN [status |-> status, applied_at |-> AppliedAtFor(status, now)] ELSE <<>>)
  @@ (IF notes # None THEN [notes |-> notes] ELSE <<>>)

Has(sets, col) == col \in DOMAIN sets

ApplySets(r, sets) ==
  [ id |-> r.id, job_url |-> r.job_url, title |-> r.title,
    date_posted |-> r.date_posted, salary_source |-> r.salary_source,
    checked    |-> IF Has(sets, "checked") THEN sets.checked ELSE r.checked,
    status     |-> IF Has(sets, "status") THEN sets.status ELSE r.status,
    notes      |-> IF Has(sets, "notes") THEN sets.notes ELSE r.notes,
    applied_at |-> IF Has(sets, "applied_at") THEN sets.applied_at ELSE r.applied_at ]

\* UPDATE jobs SET ... WHERE id = ?
UpdateRows(table, id, sets) ==
  { IF r.id = id THEN ApplySets(r, sets) ELSE r : r \in table }

RowCount(table, id) == Cardinality({ r \in table : r.id = id })

\* Variant: the row is looked up before the payload is validated.
UpdateCodeLookupFirst(sets, rowcount) ==
  IF rowcount = 0 THEN 404
  ELSE IF DOMAIN sets = {} THEN 400 ELSE 200

\* 400 before the statement is run, 404 from its rowcount
UpdateCode(sets, rowcount) ==
  IF DOMAIN sets = {} THEN 400
  ELSE IF rowcount = 0 THEN 404 ELSE 200

update_job(job_id, checked, status, notes) ==
  LET sets == UpdateSets(checked, status, notes, today)
      code == UpdateCode(sets, RowCount(jobs, job_id))
      executed == DOMAIN sets # {}
      table == IF executed THEN UpdateRows(jobs, job_id, sets) ELSE jobs
  IN /\ executed => txnOwner = NoTxn
     /\ jobs' = table
     /\ last' = [op |-> "update", code |-> code, added |-> 0]
     /\ UNCHANGED <<available, seq, usedIds, today, run, txnOwner, txnJobs, txnSeq>>

\* ------------------------------------------------------------ delete_job

delete_job(job_id) ==
  LET table == { r \in jobs : r.id # job_id } IN
  /\ txnOwner = NoTxn
  /\ jobs' = table
  /\ last' = [op |-> "delete",
              code |-> IF RowCount(jobs, job_id) = 0 THEN 404 ELSE 200,
              added |-> 0]
  /\ UNCHANGED <<available, seq, usedIds, today, run, txnOwner, txnJobs, txnSeq>>

\* ------------------------------------------------------------ import_csv

\* The row loop: a row in bad raises inside the try block and is passed
\* over; every other row runs INSERT OR IGNORE and then added += 1.
RECURSIVE ImportRows(_, _, _, _)
ImportRows(st, file, bad, k) ==
  IF k > Len(file) THEN st
  ELSE IF k \in bad THEN ImportRows(st, file, bad, k + 1)
  ELSE LET res == InsertOrIgnore(st.jobs, st.seq, file[k]) IN
       ImportRows([jobs |-> res.jobs, seq |-> res.seq, added |-> st.added + 1],
                  file, bad, k + 1)

import_csv(file, bad) ==
  LET st == ImportRows([jobs |-> jobs, seq |-> seq, added |-> 0], file, bad, 1)
  IN /\ txnOwner = NoTxn
     /\ st.seq <= MaxId
     /\ jobs' = st.jobs
     /\ seq' = st.seq
     /\ usedIds' = usedIds \cup Ids(st.jobs)
     /\ last' = [op |-> "import", code |-> 200, added |-> st.added]
     /\ UNCHANGED <<available, today, run, txnOwner, txnJobs, txnSeq>>

\* csv_path does not exist
import_csv_missing ==
  /\ last' = [op |-> "import", code |-> 404, added |-> 0]
  /\ UNCHANGED <<available, jobs, seq, usedIds, today, run, txnOwner, txnJobs, txnSeq>>

\* The calendar day changes
Tick ==
  /\ today < MaxDay
  /\ today' = today + 1
  /\ UNCHANGED <<available, jobs, seq, usedIds, run, txnOwner, txnJobs, txnSeq, last>>


\* -------------------------------------------------------- scrape_new_jobs

\* Variant: the empty result is not short-circuited.
IsEmptyDfNever(df) == FALSE

\* jobs_df.empty
IsEmptyDf(df) == Len(df) = 0

\* jobs_df[~jobs_df['title'].str.contains(pattern, case=False, na=False)]
RECURSIVE ExcludeTitles(_, _)
ExcludeTitles(df, keywords) ==
  IF df = <<>> THEN <<>>
  ELSE IF TitleHits(Head(df).title) \cap keywords # {}
    THEN ExcludeTitles(Tail(df), keywords)
    ELSE <<Head(df)>> \o ExcludeTitles(Tail(df), keywords)

\* sort_values(by='date_posted', ascending=False): rows without a date go
\* last; the default sort is not stable, so rows with equal dates may come
\* out in either order.
SortedByDate(df) ==
  { s \in { [k \in 1..Len(df) |-> df[f[k]]] : f \in Permutations(1..Len(df)) } :
      \A a, b \in 1..Len(df) : a < b => s[a].date_posted >= s[b].date_posted }

\* filtered_df.head(results_wanted)
HeadRows(df, n) == SubSeq(df, 1, Min(n, Len(df)))

\* filtered_df[~filtered_df['job_url'].isin(preserved_urls)]
RECURSIVE DropPreserved(_, _)
DropPreserved(df, preserved) ==
  IF df = <<>> THEN <<>>
  ELSE IF Head(df).job_url \in preserved
    THEN DropPreserved(Tail(df), preserved)
    ELSE <<Head(df)>> \o DropPreserved(Tail(df), preserved)

\* The handler returns or raises: its locals are gone, the response stays.
Finish(r, code, kind) ==
  [IdleRun EXCEPT !.pc = "done", !.code = code, !.kind = kind,
                  !.added = r.added, !.skipped = r.skipped,
                  !.deleted = r.deleted, !.no_rows = r.no_rows]

\* JOBSPY_AVAILABLE is False: 500 before anything else
scrape_unavailable(p) ==
  /\ run[p].pc = "idle"
  /\ ~available
  /\ run' = [run EXCEPT ![p] = Finish(@, 500, "unavailable")]
  /\ UNCHANGED <<available, jobs, seq, usedIds, today, txnOwner, txnJobs, txnSeq, last>>

\* scrape_jobs raises: 500 "Scraping failed"
scrape_fails(p) ==
  /\ run[p].pc = "idle"
  /\ available
  /\ run' = [run EXCEPT ![p] = Finish(@, 500, "provider_failed")]
  /\ UNCHANGED <<available, jobs, seq, usedIds, today, txnOwner, txnJobs, txnSeq, last>>

\* scrape_jobs returns df: the empty short-circuit, or the title exclusion,
\* the sort and the truncation
scrape_returns(p, df, results_wanted, exclude_keywords) ==
  /\ run[p].pc = "idle"
  /\ available
  /\ IF IsEmptyDf(df)
       THEN run' = [run EXCEPT ![p] =
                      [Finish(@, 200, "empty") EXCEPT
                         !.added = 0, !.skipped = 0,
                         !.deleted = Absent, !.total_found = Absent]]
       ELSE \E sorted \in SortedByDate(ExcludeTitles(df, Keywords(exclude_keywords))) :
              run' = [run EXCEPT ![p] =
                        [@ EXCEPT !.pc = "snapshot",
                                  !.no_rows = (Len(df) = 0),
                                  !.filtered_df = HeadRows(sorted, results_wanted),
                                  !.scraped = HeadRows(sorted, results_wanted)]]
  /\ UNCHANGED <<available, jobs, seq, usedIds, today, txnOwner, txnJobs, txnSeq, last>>

\* first connection: preserved_urls
snapshot(p) ==
  /\ run[p].pc = "snapshot"
  /\ run' = [run EXCEPT ![p] = [@ EXCEPT !.pc = "delete",
                                         !.preserved_urls = PreservedUrls(jobs)]]
  /\ UNCHANGED <<available, jobs, seq, usedIds, today, txnOwner, txnJobs, txnSeq, last>>

\* second connection: the bulk delete, committed at once; then the removal
\* of the preserved URLs from filtered_df and added = skipped = 0
delete_new(p) ==
  LET table == DeleteNew(jobs, run[p].preserved_urls) IN
  /\ run[p].pc = "delete"
  /\ txnOwner = NoTxn
  /\ jobs' = table
  /\ run' = [run EXCEPT ![p] =
               [@ EXCEPT !.pc = "insert",
                         !.deleted = Cardinality(jobs) - Cardinality(table),
                         !.filtered_df = DropPreserved(@, run[p].preserved_urls),
                         !.added = 0, !.skipped = 0, !.i = 1]]
  /\ UNCHANGED <<available, seq, usedIds, today, txnOwner, txnJobs, txnSeq, last>>

\* third connection, one pass of the loop body for row i: the statement
\* runs inside this connection's transaction (opened by its first INSERT)
\* and added += 1 follows it.  INSERT OR IGNORE resolves the conflict on
\* job_url itself, so sqlite3.IntegrityError is not raised and the
\* skipped += 1 handler is never entered.
insert_row(p) ==
  LET r == run[p]
      mine == txnOwner = p
      res == InsertOrIgnore(IF mine THEN txnJobs ELSE jobs,
                            IF mine THEN txnSeq ELSE seq,
                            r.filtered_df[r.i])
  IN /\ r.pc = "insert"
     /\ r.i <= Len(r.filtered_df)
     /\ txnOwner \in {NoTxn, p}
     /\ res.seq <= MaxId
     /\ txnOwner' = p
     /\ txnJobs' = res.jobs
     /\ txnSeq' = res.seq
     /\ run' = [run EXCEPT ![p] = [@ EXCEPT !.added = @ + 1, !.i = @ + 1]]
     /\ UNCHANGED <<available, jobs, seq, usedIds, today, last>>

\* the loop body for row i raises something other than IntegrityError (a
\* value sqlite3 cannot bind, the database being locked): nothing catches
\* it, the connection is closed without commit and the request ends in 500
insert_raises(p) ==
  LET r == run[p] IN
  /\ r.pc = "insert"
  /\ r.i <= Len(r.filtered_df)
  /\ run' = [run EXCEPT ![p] = Finish(@, 500, "insert_failed")]
  /\ IF txnOwner = p
       THEN txnOwner' = NoTxn /\ txnJobs' = {} /\ txnSeq' = 0
       ELSE UNCHANGED <<txnOwner, txnJobs, txnSeq>>
  /\ UNCHANGED <<available, jobs, seq, usedIds, today, last>>

\* after the last row: conn.commit() and the counts
commit_and_return(p) ==
  LET r == run[p]
      mine == txnOwner = p
      table == IF mine THEN txnJobs ELSE jobs
  IN /\ r.pc = "insert"
     /\ r.i > Len(r.filtered_df)
     /\ jobs' = table
     /\ seq' = IF mine THEN txnSeq ELSE seq
     /\ usedIds' = usedIds \cup Ids(table)
     /\ IF mine
          THEN txnOwner' = NoTxn /\ txnJobs' = {} /\ txnSeq' = 0
          ELSE UNCHANGED <<txnOwner, txnJobs, txnSeq>>
     /\ run' = [run EXCEPT ![p] =
                  [Finish(@, 200, "complete") EXCEPT
                     !.total_found = Len(r.filtered_df)]]
     /\ UNCHANGED <<available, today, last>>

\* the response has been delivered
respond(p) ==
  /\ run[p].pc = "done"
  /\ run' = [run EXCEPT ![p] = IdleRun]
  /\ UNCHANGED <<available, jobs, seq, usedIds, today, txnOwner, txnJobs, txnSeq, last>>

\* ----------------------------------------------------------- behaviours

\* A request with the default exclusion list
ReconcileStart(p) ==
  \/ scrape_unavailable(p)
  \/ scrape_fails(p)
  \/ \E df \in Batches, w \in WantedChoices : scrape_returns(p, df, w, None)

\* A request with or without its own exclusion list
ReconcileStartAny(p) ==
  \/ scrape_unavailable(p)
  \/ scrape_fails(p)
  \/ \E df \in Batches, w \in WantedChoices, x \in ExcludeChoices :
       scrape_returns(p, df, w, x)

ReconcileStep(p) ==
  \/ snapshot(p)
  \/ delete_new(p)
  \/ insert_row(p)
  \/ insert_raises(p)
  \/ commit_and_return(p)
  \/ respond(p)

Quiet == \A p \in Procs : run[p].pc = "idle"

StatusUpdates == { <<None, st, None>> : st \in {None, "new", "applied"} }
\* every status choice, alone, with checked, and with checked and notes
AllUpdates ==
  { <<cn[1], st, cn[2]>> :
      st \in StatusChoices,
      cn \in { <<None, None>>, <<"true", None>>, <<"false", "seen">> } }

\* One reconcile request whose steps interleave with update, delete and
\* import calls (status updates and the empty update).
Next ==
  \/ ReconcileStart("r1")
  \/ ReconcileStep("r1")
  \/ \E id \in 1..MaxId, u \in StatusUpdates : update_job(id, u[1], u[2], u[3])
  \/ \E id \in 1..MaxId : delete_job(id)
  \/ \E file \in CsvFiles : \E bad \in SUBSET (1..Len(file)) : import_csv(file, bad)
  \/ import_csv_missing

Spec == Init /\ [][Next]_vars

\* Two reconcile requests and imports, all interleaved.
NextRace ==
  \/ \E p \in Procs : ReconcileStart(p)
  \/ \E p \in Procs : ReconcileStep(p)
  \/ \E file \in CsvFiles : \E bad \in SUBSET (1..Len(file)) : import_csv(file, bad)

SpecRace == Init /\ [][NextRace]_vars

\* Requests served one at a time.
NextSerial ==
  \/ ReconcileStartAny("r1")
  \/ ReconcileStep("r1")
  \/ Quiet /\ \E id \in 1..MaxId, u \in StatusUpdates : update_job(id, u[1], u[2], u[3])
  \/ Quiet /\ \E id \in 1..MaxId : delete_job(id)
  \/ Quiet /\ \E file \in CsvFiles : \E bad \in SUBSET (1..Len(file)) : import_csv(file, bad)
  \/ Quiet /\ import_csv_missing

SpecSerial == Init /\ [][NextSerial]_vars

\* Every form of update, on successive days, against one listing that the
\* provider and the CSV file both carry; interleaved with one reconcile
\* request.
OneUrl(rows) == \A k \in 1..Len(rows) : rows[k].job_url = "u1"
FieldBatches == { df \in Batches : OneUrl(df) }
FieldFiles == { file \in CsvFiles : OneUrl(file) }

NextFields ==
  \/ scrape_unavailable("r1")
  \/ scrape_fails("r1")
  \/ \E df \in FieldBatches, w \in WantedChoices, x \in ExcludeChoices :
       scrape_returns("r1", df, w, x)
  \/ ReconcileStep("r1")
  \/ \E id \in 1..MaxId, u \in AllUpdates : update_job(id, u[1], u[2], u[3])
  \/ \E id \in 1..MaxId : delete_job(id)
  \/ \E file \in FieldFiles : \E bad \in SUBSET (1..Len(file)) : import_csv(file, bad)
  \/ Tick

SpecFields == Init /\ [][NextFields]_vars


\* ---------------------------------------------------------------- claims

UrlUnique(table) == \A a, b \in table : a.job_url = b.job_url => a = b
RowOf(table, id) == CHOOSE r \in table : r.id = id
ProvidesField(u) == u[1] # None \/ u[2] # None \/ u[3] # None
FrameUrls(df) == { df[k].job_url : k \in 1..Len(df) }

\* C1: a step of a reconcile request never removes a stored record whose
\* status is not "new", never changes one of its fields, and never leaves two
\* records with the same job_url, also when updates, deletes and imports run
\* between its steps and the record's URL is in the provider result.
C1_ReconcileKeepsCurated ==
  [][ (\E p \in Procs : run'[p] # run[p]) =>
        /\ \A r \in jobs : r.status # "new" => r \in jobs'
        /\ UrlUnique(jobs') ]_vars

\* The request has just run its INSERT for a URL that a record with status
\* other than "new" holds.
C1_Witness ==
  \E p \in Procs :
    /\ run[p].pc = "insert"
    /\ run[p].i > 1
    /\ \E r \in jobs : /\ r.status # "new"
                       /\ r.job_url = run[p].filtered_df[run[p].i - 1].job_url

\* C2: no two records have the same job_url, in the committed table and
\* inside an open transaction, whatever the interleaving of two reconcile
\* requests and imports; a record whose job_url is inserted again stays as
\* it was.
C2_UrlUniqueNoOverwrite ==
  /\ [](UrlUnique(jobs) /\ UrlUnique(txnJobs))
  /\ [][ /\ \A r \in jobs : r.job_url \in Urls(jobs') => r \in jobs'
         /\ txnOwner' = txnOwner /\ txnOwner # NoTxn =>
              \A r \in txnJobs : r \in txnJobs' ]_vars

\* Inside the open transaction of one request an INSERT met a taken
\* job_url while the other request is under way.
C2_Witness ==
  \E p, q \in Procs :
    /\ p # q
    /\ txnOwner = p
    /\ run[q].pc \in {"snapshot", "delete", "insert"}
    /\ txnSeq - seq > Cardinality(txnJobs) - Cardinality(jobs)

\* C3: for every record applied_at is set exactly when status is "applied":
\* a new record has status "new" and no applied_at; an update that sets
\* status "applied" writes today's date, also over an earlier date; an update
\* that sets another status clears applied_at; an update without status
\* leaves status and applied_at alone.
C3_AppliedAtFollowsStatus ==
  /\ [](\A r \in jobs \cup txnJobs :
          (r.applied_at # NullDate) <=> (r.status = "applied"))
  /\ [][ /\ \A r \in jobs' : r.id \notin Ids(jobs) =>
              r.status = "new" /\ r.applied_at = NullDate
         /\ (last'.op = "update" /\ last'.code = 200 /\ run' = run) =>
              \A id \in Ids(jobs), u \in AllUpdates :
                update_job(id, u[1], u[2], u[3]) =>
                  LET old == RowOf(jobs, id)
                      new == RowOf(jobs', id)
                  IN /\ u[2] = "applied" =>
                          new.status = "applied" /\ new.applied_at = today
                     /\ u[2] \notin {None, "applied"} =>
                          new.status = u[2] /\ new.applied_at = NullDate
                     /\ u[2] = None =>
                          new.status = old.status /\ new.applied_at = old.applied_at
       ]_vars

\* A record was marked applied on a later day than the first.
C3_Witness ==
  \E r \in jobs : r.status = "applied" /\ r.applied_at = today /\ today > 1

\* C4: a reconcile request changes the table only after the provider call
\* succeeded with at least one row; when the provider is unavailable, fails
\* or returns no row the request ends at once with the table as it was, and
\* the empty case answers 200 with added = 0 and skipped = 0.
C4_NoRowsNoMutation ==
  [][ \A p \in Procs : run'[p] # run[p] =>
        /\ (jobs' # jobs \/ txnJobs' # txnJobs) =>
             ~run[p].no_rows /\ run[p].pc \in {"delete", "insert"}
        /\ (run[p].pc = "idle" /\ run'[p].pc = "done") =>
             /\ run'[p].kind \in {"unavailable", "provider_failed", "empty"}
             /\ jobs' = jobs /\ txnJobs' = txnJobs
             /\ run'[p].kind = "empty" =>
                  run'[p].code = 200 /\ run'[p].added = 0 /\ run'[p].skipped = 0
             /\ run'[p].kind # "empty" => run'[p].code = 500
        /\ run'[p].kind = "empty" => run[p].pc = "idle"
    ]_vars

\* The provider returned no row while records with status "new" are stored.
C4_Witness ==
  \E p \in Procs :
    run[p].pc = "done" /\ run[p].kind = "empty" /\ CountNew(jobs) > 0

\* C5: when a reconcile request completes, added is the number of rows it
\* really inserted, a row whose job_url was taken counts in skipped, and
\* added + skipped = total_found.
C5_AddedCountsInsertions ==
  [][ \A p \in Procs :
        (run[p].pc = "insert" /\ run'[p].pc = "done" /\ run'[p].kind = "complete") =>
          /\ run'[p].added = Cardinality(jobs') - Cardinality(jobs)
          /\ run'[p].added + run'[p].skipped = run'[p].total_found ]_vars

\* C6: an update that provides no field answers 400 for every id and leaves
\* the table as it was.
C6_EmptyUpdateRejected ==
  [][ \A id \in 1..MaxId :
        update_job(id, None, None, None) =>
          last'.code = 400 /\ jobs' = jobs /\ txnJobs' = txnJobs ]_vars

\* An empty update was answered 400 while records are stored.
C6_Witness ==
  last.op = "update" /\ last.code = 400 /\ jobs # {}

\* C7: an import counts only the rows it really inserted, leaves every
\* stored record as it was and deletes none.
C7_ImportCountsInsertions ==
  [][ \A file \in CsvFiles : \A bad \in SUBSET (1..Len(file)) :
        import_csv(file, bad) =>
          /\ last'.added = Cardinality(jobs') - Cardinality(jobs)
          /\ jobs \subseteq jobs' ]_vars

\* C8: a request in which the INSERT of one row failed still answers 200
\* with that row counted in skipped.
C8_RowFailureDoesNotAbort ==
  \A p \in Procs :
    run[p].kind = "insert_failed" => run[p].code = 200 /\ run[p].skipped >= 1

\* C9: in a reconcile request that completes with nothing else running
\* during it, deleted is the number of records that had status "new"; after
\* the delete no record has status "new"; after the commit the URLs with
\* status "new" are exactly the URLs of the truncated, title-filtered
\* provider rows that no other record holds.
C9_NewPoolReplaced ==
  [][ \A p \in Procs :
        /\ (run[p].pc = "delete" /\ run'[p].pc = "insert") =>
             /\ run'[p].deleted = CountNew(jobs)
             /\ NewUrls(jobs') = {}
             /\ PreservedUrls(jobs') = PreservedUrls(jobs)
        /\ (run[p].pc = "insert" /\ run'[p].pc = "done" /\ run'[p].kind = "complete") =>
             /\ run'[p].deleted = run[p].deleted
             /\ NewUrls(jobs') = FrameUrls(run[p].scraped) \ PreservedUrls(jobs)
             /\ PreservedUrls(jobs') = PreservedUrls(jobs) ]_vars

\* A request completed after deleting a record and inserting one, and the
\* table holds records with status "new".
C9_Witness ==
  \E p \in Procs :
    /\ run[p].kind = "complete"
    /\ run[p].deleted >= 1
    /\ run[p].added >= 1
    /\ NewUrls(jobs) # {}

\* C10: an id once given to a committed record is never given to a record
\* created later, and an update (with a field) or a delete addressed to the
\* id of a record that is gone answers 404 and changes no record.
C10_IdsNeverReused ==
  /\ [](Ids(jobs) \subseteq usedIds)
  /\ [][ /\ \A r \in jobs' : r.id \notin Ids(jobs) => r.id \notin usedIds
         /\ \A id \in usedIds \ Ids(jobs) :
              /\ \A u \in StatusUpdates :
                   (ProvidesField(u) /\ update_job(id, u[1], u[2], u[3])) =>
                     last'.code = 404 /\ jobs' = jobs
              /\ delete_job(id) => last'.code = 404 /\ jobs' = jobs ]_vars

\* A listing deleted by a reconcile request is stored again under a new id,
\* and a call to the old id was answered 404.
C10_Witness ==
  /\ last.code = 404
  /\ \E p \in Procs : run[p].kind = "complete" /\ run[p].deleted >= 1
  /\ \E r \in jobs : r.id > 1 /\ 1 \in usedIds \ Ids(jobs)

====
